---- MODULE Spec2Model ----
(***************************************************************************)
(* scripts/prepare_docs.py: copy the root README.md to docs/index.md.      *)
(*                                                                         *)
(*   (ROOT / "docs" / "index.md").write_text((ROOT / "README.md").read_text())  *)
(*                                                                         *)
(* Files are sequences of bytes.  read_text opens README.md in text mode   *)
(* (default encoding, universal newlines), write_text opens docs/index.md  *)
(* in mode "w" (create or truncate, position 0) and writes the text with   *)
(* "\n" translated to os.linesep.  A run is one process executing the      *)
(* script: main() -> prepare_index_file() -> read, open, write -> exit.    *)
(***************************************************************************)
EXTENDS Integers, Sequences, FiniteSets, TLC

\* Longest README.md content, in bytes.
MaxLen == 2
\* Longest pre-existing docs/index.md content, in bytes.
MaxOldLen == 2
\* Longest README.md content when two runs race and README.md is edited.
MaxConcLen == 2

\* The runs of the script: two in succession (Spec) or two at once (SpecConc).
Runs == {1, 2}

\* Bytes a README.md is made of: an ASCII letter, carriage return, line feed,
\* and the lead and continuation byte of one two-byte character.  A lead byte
\* without its continuation, or a continuation alone, does not decode.
ReadmeBytes == {"a", "CR", "LF", "HI", "LO"}
\* Bytes of a README.md in the racing runs (always decodable).
ConcBytes == {"a", "LF"}
\* The byte a stale docs/index.md is made of.
OldByte == "d"

SeqsUpTo(S, n) == UNION {[1..k -> S] : k \in 0..n}

RECURSIVE Repeat(_, _)
Repeat(x, n) == IF n = 0 THEN <<>> ELSE <<x>> \o Repeat(x, n - 1)

VARIABLES
    linesep,    \* os.linesep of the platform, as bytes
    readme,     \* ROOT/README.md: [exists, readable, bytes]
    docs,       \* whether the directory ROOT/docs exists
    index,      \* ROOT/docs/index.md: [exists, bytes]
    pc,         \* each run's position in the script
    text,       \* each run's str returned by read_text
    pos,        \* each run's file position in its handle on docs/index.md
    err,        \* the exception each run raised, "none" if none
    status,     \* each run's process exit status, -1 while it runs
    calls,      \* how often each run called prepare_index_file
    nwrites,    \* how many writes each run made on a file handle
    touched,    \* the paths each run created, truncated or wrote
    before,     \* docs and docs/index.md as each run found them when it started
    after,      \* docs/index.md as each run left it when it exited
    written,    \* the bytes each run wrote
    writers,    \* the runs that wrote, in the order of their writes
    overlapped  \* runs whose handle was open while another run wrote

vars == <<linesep, readme, docs, index, pc, text, pos, err, status, calls,
          nwrites, touched, before, after, written, writers, overlapped>>

fsvars == <<linesep, readme, docs, index>>

INDEX_MD == "docs/index.md"
README_MD == "README.md"

(***************************************************************************)
(* Text decoding and encoding (Path.read_text / Path.write_text defaults). *)
(***************************************************************************)

\* Whether the bytes decode under the default encoding (errors="strict").
RECURSIVE Decodable(_)
Decodable(b) ==
    IF b = <<>> THEN TRUE
    ELSE IF Head(b) = "HI"
         THEN Len(b) >= 2 /\ b[2] = "LO" /\ Decodable(SubSeq(b, 3, Len(b)))
         ELSE Head(b) # "LO" /\ Decodable(Tail(b))

\* The characters the bytes decode to: HI LO is the one character "E".
RECURSIVE DecodeChars(_)
DecodeChars(b) ==
    IF b = <<>> THEN <<>>
    ELSE IF Head(b) = "HI"
         THEN <<"E">> \o DecodeChars(SubSeq(b, 3, Len(b)))
         ELSE <<Head(b)>> \o DecodeChars(Tail(b))

\* newline=None on reading: "\r\n", "\r" and "\n" all become "\n".
RECURSIVE UniversalNewlines(_)
UniversalNewlines(t) ==
    IF t = <<>> THEN <<>>
    ELSE IF Head(t) = "CR"
         THEN <<"LF">> \o UniversalNewlines(
                  IF Len(t) >= 2 /\ t[2] = "LF" THEN SubSeq(t, 3, Len(t))
                                                ELSE Tail(t))
         ELSE <<Head(t)>> \o UniversalNewlines(Tail(t))

\* The str read_text returns for decodable bytes.
Decode(b) == UniversalNewlines(DecodeChars(b))

\* newline=None on writing: "\n" becomes os.linesep; then the text is encoded.
RECURSIVE Encode(_, _)
Encode(t, sep) ==
    IF t = <<>> THEN <<>>
    ELSE (IF Head(t) = "LF" THEN sep
          ELSE IF Head(t) = "E" THEN <<"HI", "LO">>
          ELSE <<Head(t)>>) \o Encode(Tail(t), sep)

(***************************************************************************)
(* The two file operations.                                                *)
(***************************************************************************)

\* A bug: a missing README.md read as the empty text.
ReadOutcomeFallback(f) ==
    IF ~f.exists THEN [err |-> "none", text |-> <<>>]
    ELSE IF ~f.readable THEN [err |-> "PermissionError", text |-> <<>>]
    ELSE IF ~Decodable(f.bytes) THEN [err |-> "UnicodeDecodeError", text |-> <<>>]
    ELSE [err |-> "none", text |-> Decode(f.bytes)]

\* (ROOT / "README.md").read_text(): the exception raised, or the text.
ReadOutcome(f) ==
    IF ~f.exists THEN [err |-> "FileNotFoundError", text |-> <<>>]
    ELSE IF ~f.readable THEN [err |-> "PermissionError", text |-> <<>>]
    ELSE IF ~Decodable(f.bytes) THEN [err |-> "UnicodeDecodeError", text |-> <<>>]
    ELSE [err |-> "none", text |-> Decode(f.bytes)]

\* A bug: open(mode="a"), which keeps the old bytes and writes after them.
OpenOutcomeAppend(dir, f) ==
    IF ~dir
    THEN [err |-> "FileNotFoundError", dir |-> dir, file |-> f, pos |-> 0]
    ELSE [err |-> "none", dir |-> TRUE,
          file |-> [exists |-> TRUE, bytes |-> f.bytes], pos |-> Len(f.bytes)]

\* A bug: the parent directory is created when it is missing.
OpenOutcomeMkdir(dir, f) ==
    [err |-> "none", dir |-> TRUE,
     file |-> [exists |-> TRUE, bytes |-> <<>>], pos |-> 0]

\* open(ROOT/docs/index.md, "w") inside write_text: fails when the directory
\* is missing, otherwise creates or truncates the file; the handle is at 0.
OpenOutcome(dir, f) ==
    IF ~dir
    THEN [err |-> "FileNotFoundError", dir |-> dir, file |-> f, pos |-> 0]
    ELSE [err |-> "none", dir |-> TRUE,
          file |-> [exists |-> TRUE, bytes |-> <<>>], pos |-> 0]

\* A bug: the handle is in append mode, every write lands at the end of file.
WriteAtEnd(old, p, new) == old \o new

\* The file's bytes after new bytes are written at position p of a handle that
\* is not in append mode: a gap is filled with NUL, bytes past the end of the
\* new ones stay.
WriteAt(old, p, new) ==
    LET gap == IF p > Len(old) THEN Repeat("NUL", p - Len(old)) ELSE <<>>
    IN SubSeq(old, 1, p) \o gap \o new \o SubSeq(old, p + Len(new) + 1, Len(old))

\* A bug: the error is swallowed and the process exits 0.
ExitStatusSwallow(e) == 0

\* The interpreter's exit status: 1 after an unhandled exception, else 0.
ExitStatus(e) == IF e = "none" THEN 0 ELSE 1

\* A bug: the destination is opened before the source is read.
GotoOpenFirst(at, ok) ==
    CASE at = "main" -> "open"
      [] at = "open" -> IF ok THEN "read" ELSE "raised"
      [] at = "read" -> IF ok THEN "write" ELSE "raised"
      [] at = "write" -> "returned"

\* Control flow of main() and prepare_index_file(): the argument of
\* write_text, the read, is evaluated before write_text opens the file.
Goto(at, ok) ==
    CASE at = "main" -> "read"
      [] at = "read" -> IF ok THEN "open" ELSE "raised"
      [] at = "open" -> IF ok THEN "write" ELSE "raised"
      [] at = "write" -> "returned"

(***************************************************************************)
(* Initial states.                                                         *)
(***************************************************************************)

Readmes(contents) ==
    {[exists |-> FALSE, readable |-> FALSE, bytes |-> <<>>]}
    \cup {[exists |-> TRUE, readable |-> r, bytes |-> c] :
             r \in BOOLEAN, c \in contents}

Indexes ==
    {[exists |-> FALSE, bytes |-> <<>>]}
    \cup {[exists |-> TRUE, bytes |-> Repeat(OldByte, k)] : k \in 0..MaxOldLen}

NoSnapshot == [docs |-> FALSE, index |-> [exists |-> FALSE, bytes |-> <<>>]]

InitWith(contents) ==
    /\ linesep \in {<<"LF">>, <<"CR", "LF">>}
    /\ readme \in Readmes(contents)
    /\ docs \in BOOLEAN
    /\ index \in Indexes
    /\ (~docs => ~index.exists)
    /\ pc = [r \in Runs |-> "idle"]
    /\ text = [r \in Runs |-> <<>>]
    /\ pos = [r \in Runs |-> 0]
    /\ err = [r \in Runs |-> "none"]
    /\ status = [r \in Runs |-> -1]
    /\ calls = [r \in Runs |-> 0]
    /\ nwrites = [r \in Runs |-> 0]
    /\ touched = [r \in Runs |-> {}]
    /\ before = [r \in Runs |-> NoSnapshot]
    /\ after = [r \in Runs |-> [exists |-> FALSE, bytes |-> <<>>]]
    /\ written = [r \in Runs |-> <<>>]
    /\ writers = <<>>
    /\ overlapped = {}

Init == InitWith(SeqsUpTo(ReadmeBytes, MaxLen))

InitConc == InitWith(SeqsUpTo(ConcBytes, MaxConcLen))

(***************************************************************************)
(* The steps of a run.                                                     *)
(***************************************************************************)

\* if __name__ == "__main__": the process starts.
Start(r) ==
    /\ pc[r] = "idle"
    /\ pc' = [pc EXCEPT ![r] = "main"]
    /\ before' = [before EXCEPT ![r] = [docs |-> docs, index |-> index]]
    /\ UNCHANGED <<fsvars, text, pos, err, status, calls, nwrites, touched,
                   after, written, writers, overlapped>>

\* The build runs the script as one step at a time: a run starts when no
\* other run is in progress.
StartAlone(r) ==
    /\ \A o \in Runs \ {r} : pc[o] \in {"idle", "exited"}
    /\ Start(r)

\* main(): calls prepare_index_file().
Main(r) ==
    /\ pc[r] = "main"
    /\ calls' = [calls EXCEPT ![r] = @ + 1]
    /\ pc' = [pc EXCEPT ![r] = Goto("main", TRUE)]
    /\ UNCHANGED <<fsvars, text, pos, err, status, nwrites, touched, before,
                   after, written, writers, overlapped>>

\* A bug: README.md opened in mode "w+", which truncates it before the read.
ReadTextTruncating(r) ==
    /\ pc[r] = "read"
    /\ LET out == ReadOutcome([readme EXCEPT !.bytes = <<>>]) IN
        /\ text' = [text EXCEPT ![r] = out.text]
        /\ err' = [err EXCEPT ![r] = out.err]
        /\ readme' = IF out.err = "none" THEN [readme EXCEPT !.bytes = <<>>]
                                         ELSE readme
        /\ touched' = [touched EXCEPT ![r] =
              @ \cup (IF out.err = "none" THEN {README_MD} ELSE {})]
        /\ pc' = [pc EXCEPT ![r] = Goto("read", out.err = "none")]
    /\ UNCHANGED <<linesep, docs, index, pos, status, calls, nwrites, before,
                   after, written, writers, overlapped>>

\* (ROOT / "README.md").read_text()
ReadText(r) ==
    /\ pc[r] = "read"
    /\ LET out == ReadOutcome(readme) IN
        /\ text' = [text EXCEPT ![r] = out.text]
        /\ err' = [err EXCEPT ![r] = out.err]
        /\ pc' = [pc EXCEPT ![r] = Goto("read", out.err = "none")]
    /\ UNCHANGED <<fsvars, pos, status, calls, nwrites, touched, before,
                   after, written, writers, overlapped>>

\* write_text, first half: open(ROOT/docs/index.md, "w").
OpenIndex(r) ==
    /\ pc[r] = "open"
    /\ LET out == OpenOutcome(docs, index) IN
        /\ index' = out.file
        /\ docs' = out.dir
        /\ pos' = [pos EXCEPT ![r] = out.pos]
        /\ err' = [err EXCEPT ![r] = out.err]
        /\ touched' = [touched EXCEPT ![r] =
              @ \cup (IF out.err = "none" THEN {INDEX_MD} ELSE {})
                \cup (IF out.dir # docs THEN {"docs"} ELSE {})]
        /\ pc' = [pc EXCEPT ![r] = Goto("open", out.err = "none")]
    /\ UNCHANGED <<linesep, readme, text, status, calls, nwrites, before,
                   after, written, writers, overlapped>>

\* A bug: the text is written a second time, to a backup beside the index.
WriteIndexAndBackup(r) ==
    /\ pc[r] = "write"
    /\ LET data == Encode(text[r], linesep) IN
        /\ index' = [exists |-> TRUE, bytes |-> WriteAt(index.bytes, pos[r], data)]
        /\ pos' = [pos EXCEPT ![r] = @ + Len(data)]
        /\ written' = [written EXCEPT ![r] = data]
    /\ nwrites' = [nwrites EXCEPT ![r] = @ + 2]
    /\ touched' = [touched EXCEPT ![r] = @ \cup {INDEX_MD, "docs/index.md.bak"}]
    /\ writers' = Append(writers, r)
    /\ overlapped' = overlapped \cup {o \in Runs \ {r} : pc[o] = "write"}
    /\ pc' = [pc EXCEPT ![r] = Goto("write", TRUE)]
    /\ UNCHANGED <<linesep, readme, docs, text, err, status, calls, before, after>>

\* write_text, second half: f.write(data) and the close that flushes it.
WriteIndex(r) ==
    /\ pc[r] = "write"
    /\ LET data == Encode(text[r], linesep) IN
        /\ index' = [exists |-> TRUE, bytes |-> WriteAt(index.bytes, pos[r], data)]
        /\ pos' = [pos EXCEPT ![r] = @ + Len(data)]
        /\ written' = [written EXCEPT ![r] = data]
    /\ nwrites' = [nwrites EXCEPT ![r] = @ + 1]
    /\ touched' = [touched EXCEPT ![r] = @ \cup {INDEX_MD}]
    /\ writers' = Append(writers, r)
    /\ overlapped' = overlapped \cup {o \in Runs \ {r} : pc[o] = "write"}
    /\ pc' = [pc EXCEPT ![r] = Goto("write", TRUE)]
    /\ UNCHANGED <<linesep, readme, docs, text, err, status, calls, before, after>>

\* The process ends: main() returned, or the exception reached the top.
Exit(r) ==
    /\ pc[r] \in {"returned", "raised"}
    /\ status' = [status EXCEPT ![r] = ExitStatus(err[r])]
    /\ after' = [after EXCEPT ![r] = index]
    /\ pc' = [pc EXCEPT ![r] = "exited"]
    /\ UNCHANGED <<fsvars, text, pos, err, calls, nwrites, touched, before,
                   written, writers, overlapped>>

\* README.md is maintained by the project's other tooling: its content changes
\* between the reads of two runs.  (A change before the first read is another
\* initial state, a change after the last read is seen by no run.)
EditReadme ==
    /\ readme.exists
    /\ \E r \in Runs : pc[r] \in {"idle", "main", "read"}
    /\ \E r \in Runs : pc[r] \notin {"idle", "main", "read"}
    /\ \E c \in SeqsUpTo(ConcBytes, MaxConcLen) \ {readme.bytes} :
          readme' = [readme EXCEPT !.bytes = c]
    /\ UNCHANGED <<linesep, docs, index, pc, text, pos, err, status, calls,
                   nwrites, touched, before, after, written, writers, overlapped>>

Step(r) == Main(r) \/ ReadText(r) \/ OpenIndex(r) \/ WriteIndex(r) \/ Exit(r)

Next ==
    \/ \E r \in Runs : StartAlone(r)
    \/ \E r \in Runs : Main(r)
    \/ \E r \in Runs : ReadText(r)
    \/ \E r \in Runs : OpenIndex(r)
    \/ \E r \in Runs : WriteIndex(r)
    \/ \E r \in Runs : Exit(r)

NextConc ==
    \/ \E r \in Runs : Start(r)
    \/ \E r \in Runs : Main(r)
    \/ \E r \in Runs : ReadText(r)
    \/ \E r \in Runs : OpenIndex(r)
    \/ \E r \in Runs : WriteIndex(r)
    \/ \E r \in Runs : Exit(r)
    \/ EditReadme

\* Runs in succession, README.md unchanged.
Spec == Init /\ [][Next]_vars

\* The same, where a started process keeps being scheduled until it ends.
FairSpec == Init /\ [][Next]_vars /\ \A r \in Runs : WF_vars(Step(r))

\* Two runs at once on the same root, README.md edited meanwhile.
SpecConc == InitConc /\ [][NextConc]_vars

(***************************************************************************)
(* Properties.                                                             *)
(***************************************************************************)

Exited(r) == pc[r] = "exited"
Succeeded(r) == pc[r] = "exited" /\ status[r] = 0
ReadFails == ReadOutcome(readme).err # "none"
FirstWriter == writers[1]
LastWriter == writers[Len(writers)]

\* C1 (fidelity): after a run that succeeded, docs/index.md holds exactly the
\* bytes of README.md, whether or not it existed before.
C1_Fidelity ==
    \A r \in Runs :
        Succeeded(r) => after[r] = [exists |-> TRUE, bytes |-> readme.bytes]

\* C2 (overwrite): when docs/index.md existed with a content other than
\* README.md's, after a run that succeeded it holds README.md's bytes (and so
\* nothing of the old content).
C2_Overwrite ==
    \A r \in Runs :
        (/\ Succeeded(r)
         /\ before[r].index.exists
         /\ before[r].index.bytes # readme.bytes)
        => after[r].bytes = readme.bytes

\* C3 (idempotence): README.md unchanged, docs/index.md is the same after
\* the second of two runs in succession as after the first, whatever it was
\* before the first.
C3_Idempotent ==
    (\A r \in Runs : Exited(r)) => after[1] = after[2]

C3_Witness ==
    /\ \A r \in Runs : Succeeded(r)
    /\ writers = <<1, 2>>
    /\ before[1].index.exists
    /\ Len(before[1].index.bytes) > Len(after[1].bytes)
    /\ after[1].bytes # <<>>

\* C4 (missing source): README.md absent, a run never gets past the read, it
\* ends with FileNotFoundError and a non-zero status, and docs/index.md is as
\* the run found it: same content, or still absent.
C4_MissingSource ==
    \A r \in Runs :
        ~readme.exists =>
            /\ pc[r] \in {"idle", "main", "read", "raised", "exited"}
            /\ pc[r] \in {"raised", "exited"} =>
                  err[r] = "FileNotFoundError" /\ index = before[r].index
            /\ Exited(r) => status[r] # 0 /\ after[r] = before[r].index

C4_Witness ==
    \E r \in Runs :
        /\ ~readme.exists
        /\ Exited(r)
        /\ before[r].index.exists
        /\ before[r].index.bytes # <<>>

\* C5 (missing docs directory): README.md readable and docs absent, a run
\* ends with a not-found or permission error at the open, docs is not
\* created and no file is created.
C5_MissingDocs ==
    \A r \in Runs :
        (~ReadFails /\ pc[r] # "idle" /\ ~before[r].docs) =>
            /\ pc[r] \notin {"write", "returned"}
            /\ ~docs
            /\ ~index.exists
            /\ touched[r] = {}
            /\ pc[r] \in {"raised", "exited"} =>
                  err[r] \in {"FileNotFoundError", "PermissionError"}
            /\ Exited(r) => status[r] # 0

C5_Witness ==
    \E r \in Runs :
        /\ ~ReadFails
        /\ ~before[r].docs
        /\ Exited(r)
        /\ text[r] # <<>>

\* C6 (entry point): a run calls prepare_index_file exactly once, never
\* again, and then ends; its exit status is 0 exactly when neither the read
\* nor the write raised.
C6_EntryPoint ==
    /\ [](\A r \in Runs :
            /\ calls[r] <= 1
            /\ pc[r] \notin {"idle", "main"} => calls[r] = 1
            /\ Exited(r) => status[r] \in {0, 1}
            /\ Exited(r) => (status[r] = 0 <=> err[r] = "none")
            /\ Exited(r) => (status[r] = 0 <=>
                  (ReadOutcome(readme).err = "none" /\ before[r].docs)))
    /\ \A r \in Runs : (pc[r] = "main") ~> Exited(r)

C6_Witness ==
    \E r \in Runs :
        /\ Exited(r)
        /\ status[r] = 1
        /\ err[r] = "UnicodeDecodeError"
        /\ calls[r] = 1

\* The two racing runs both found README.md readable and docs present.
ConcReady ==
    /\ \A r \in Runs : Exited(r)
    /\ readme.exists /\ readme.readable
    /\ \A r \in Runs : before[r].docs

\* C7 (concurrent runs, as claimed): both runs succeed and docs/index.md
\* ends as the bytes of the run that wrote last.  (Stated for runs that each
\* wrote at least one byte, so that each write is a write to the file.)
C7_LastWriteWins ==
    (ConcReady /\ \A r \in Runs : written[r] # <<>>) =>
        /\ \A r \in Runs : status[r] = 0
        /\ index.bytes = written[LastWriter]

\* C7 (concurrent runs, amended): both runs succeed; docs/index.md ends as
\* the bytes of the run that wrote last, followed, when that run had opened
\* the file before the other run wrote, by the other run's bytes beyond that
\* length.  So the last write wins whenever its bytes are not the shorter.
C7_LastWriteOverlays ==
    ConcReady =>
        /\ \A r \in Runs : status[r] = 0
        /\ Len(writers) = 2
        /\ index.bytes =
              written[LastWriter] \o
              (IF LastWriter \in overlapped
               THEN SubSeq(written[FirstWriter],
                           Len(written[LastWriter]) + 1,
                           Len(written[FirstWriter]))
               ELSE <<>>)
        /\ Len(written[LastWriter]) >= Len(written[FirstWriter]) =>
              index.bytes = written[LastWriter]

C7_Witness ==
    /\ ConcReady
    /\ Len(writers) = 2
    /\ LastWriter \in overlapped
    /\ written[LastWriter] # <<>>
    /\ Len(written[LastWriter]) < Len(written[FirstWriter])
    /\ index.bytes # written[LastWriter]

\* C8 (read before write): a run whose read fails never changes
\* docs/index.md, and whenever docs/index.md differs from what the run in
\* progress found, that run is past a read that succeeded.
C8_ReadBeforeWrite ==
    \A r \in Runs :
        /\ (ReadFails /\ pc[r] # "idle") => index = before[r].index
        /\ (pc[r] \notin {"idle", "exited"} /\ index # before[r].index) =>
              /\ pc[r] \in {"write", "returned"}
              /\ err[r] = "none"
              /\ text[r] = ReadOutcome(readme).text
              /\ ~ReadFails

C8_Witness ==
    \E r \in Runs :
        /\ pc[r] = "write"
        /\ index # before[r].index
        /\ before[r].index.bytes # <<>>
        /\ text[r] # <<>>

\* C9 (source is read-only): no step of a run changes README.md's existence,
\* permissions or content.
C9_SourceReadOnly == [][readme' = readme]_vars

C9_Witness ==
    \E r \in Runs :
        /\ Succeeded(r)
        /\ INDEX_MD \in touched[r]
        /\ readme.bytes # <<>>
        /\ after[r].bytes # <<>>

\* C10 (single write): a run that succeeded made exactly one write, on
\* docs/index.md, and changed no other file or directory; a run whose read
\* failed made none.
C10_SingleWrite ==
    \A r \in Runs :
        /\ (pc[r] \in {"returned", "exited"} /\ err[r] = "none") =>
              /\ nwrites[r] = 1
              /\ touched[r] = {INDEX_MD}
              /\ docs = before[r].docs
        /\ (pc[r] \in {"raised", "exited"} /\ ReadFails) =>
              /\ nwrites[r] = 0
              /\ touched[r] = {}
        /\ nwrites[r] <= 1

C10_Witness ==
    \E r \in Runs :
        /\ pc[r] = "returned"
        /\ nwrites[r] = 1
        /\ ~before[r].index.exists
        /\ index.exists

====
